---------------------------- MODULE Spec2Model ----------------------------
(***************************************************************************)
(* ProxASAGA: the Python driver minimize_SAGA (src/prox_asaga.py) and the  *)
(* asynchronous proximal SAGA solver it calls through cffi.                *)
(*                                                                         *)
(* The driver, _compute_D and the trimming of the trace are translated     *)
(* from prox_asaga.py.  The solver behind cffi_prox_asaga lives in         *)
(* libasaga.so, which prox_asaga.py only loads; its worker loop, step      *)
(* counter, snapshot protocol and precondition checks follow the design    *)
(* document (sections 4.2-4.4, 5, 7).                                      *)
(*                                                                         *)
(* Numbers.  Floating point values are modelled exactly where the code     *)
(* only divides integers (d[j] = n_samples / count is a pair <<num, den>>) *)
(* and in fixed point elsewhere: the iterate and the gradient scalars are  *)
(* in units of 1/4, g_avg is kept in units of 1/(4 * n_samples), so that   *)
(* its incremental update is exact, and divisions round towards 0.         *)
(* Column and row indices are 1-based here and 0-based in the code.        *)
(***************************************************************************)
EXTENDS Integers, Sequences, FiniteSets, TLC

\* ------------------------------------------------------------- bounds
\* The input matrix has at most MaxSamples rows, at most MaxFeatures columns
\* and at most MaxCells cells (n_samples * n_features).
MaxSamples == 2
MaxFeatures == 2
MaxCells == 4
MaxIter == 3
MaxThreads == 2
\* The runs explored take at most MaxSteps worker steps (max_iter * n_samples).
MaxSteps == 3

\* A cell of the input matrix: no stored entry, or a stored value.  A stored
\* 0 is an explicit zero of the sparse format.
NoEntry == 0 - 1
StoredValues == {0, 1}
CellValues == {NoEntry} \cup StoredValues

\* The <<alpha, beta, step_size>> the caller may pass: the valid ones, and
\* those where alpha or step_size is 0 and violates its precondition.
HyperValues == {<<1, 0, 1>>, <<1, 1, 1>>, <<0, 0, 1>>, <<1, 0, 0>>}
IterValues == (0 - 2)..MaxIter
JobValues == 0..MaxThreads

VARIABLES
    A,          \* the CSR matrix: [n_samples, n_features, indptr, indices, data]
    b,          \* labels, 1..n_samples -> {-1, 1}
    alpha, beta, step_size, max_iter, n_jobs,
    pc,         \* the driver's position in minimize_SAGA
    x,          \* the iterate
    d,          \* the reweighting vector, pairs <<num, den>>
    trace_x, trace_time,
    rc,         \* what cffi_prox_asaga returned
    result,     \* what minimize_SAGA returned, or NoResult
    worker,     \* per worker: [pc, i, g_new, g_old, left]
    counter,    \* the shared step counter
    pending,    \* snapshot requests signalled to the driver, oldest first
    n_writes,   \* slot -> how many snapshot writes have completed on it
    g_avg,      \* running average gradient, units of 1/(4 * n_samples)
    mem         \* gradient memory, units of 1/4

inputs == <<A, b, alpha, beta, step_size, max_iter, n_jobs>>
driver == <<pc, x, d, trace_x, trace_time, rc, result>>
native == <<worker, counter, pending, n_writes, g_avg, mem>>
vars == <<A, b, alpha, beta, step_size, max_iter, n_jobs,
          pc, x, d, trace_x, trace_time, rc, result,
          worker, counter, pending, n_writes, g_avg, mem>>

\* ------------------------------------------------------- small helpers
RECURSIVE SumOver(_, _)
SumOver(f, S) ==
    IF S = {} THEN 0
    ELSE LET e == CHOOSE e \in S : TRUE IN f[e] + SumOver(f, S \ {e})

Abs(v) == IF v < 0 THEN 0 - v ELSE v
Sign(v) == IF v < 0 THEN 0 - 1 ELSE IF v > 0 THEN 1 ELSE 0
Max(u, v) == IF u >= v THEN u ELSE v

Zeros(S) == [e \in S |-> 0]

\* ------------------------------------------------- the sparse matrix
\* The columns of one row that hold a stored entry, ascending.
RECURSIVE RowCols(_, _)
RowCols(row, j) ==
    IF j = 0 THEN <<>>
    ELSE IF row[j] = NoEntry THEN RowCols(row, j - 1)
         ELSE Append(RowCols(row, j - 1), j)

\* sparse.csr_matrix(A): row pointers, column indices and stored values of
\* the first i rows of cells.  Explicit zeros are stored like any value.
RECURSIVE CsrRows(_, _)
CsrRows(cells, i) ==
    IF i = 0 THEN [indptr |-> <<0>>, indices |-> <<>>, data |-> <<>>]
    ELSE LET p == CsrRows(cells, i - 1)
             cols == RowCols(cells[i], Len(cells[i]))
         IN [indptr |-> Append(p.indptr, Len(p.indices) + Len(cols)),
             indices |-> p.indices \o cols,
             data |-> p.data \o [k \in 1..Len(cols) |-> cells[i][cols[k]]]]

csr_matrix(cells, n, m) ==
    LET c == CsrRows(cells, n)
    IN [n_samples |-> n, n_features |-> m,
        indptr |-> c.indptr, indices |-> c.indices, data |-> c.data]

Samples(M) == 1..M.n_samples
Columns(M) == 1..M.n_features
Features == Columns(A)
\* The positions of row i in indices and data.
RowEntries(M, i) == (M.indptr[i] + 1)..M.indptr[i + 1]
\* A[i, j]: the sum of the values stored at (i, j), 0 when none is.
Entry(M, i, j) ==
    SumOver(M.data, {k \in RowEntries(M, i) : M.indices[k] = j})
\* c_j: the number of samples with a nonzero value in column j.
NonzeroCount(M, j) == Cardinality({i \in Samples(M) : Entry(M, i, j) # 0})

\* ------------------------------------------------------- _compute_D
\* tmp.sum(0): the column sums of a matrix given by indices and data.
ColumnSum(indices, data, j) ==
    SumOver(data, {k \in 1..Len(indices) : indices[k] = j})

\* The value of n / c as the exact quotient <<num, den>>.
Quot(n, c) == <<n, c>>
RatZero == <<0, 1>>
IsZero(q) == q[1] = 0

compute_D(M) ==
    LET ones == [k \in 1..Len(M.data) |-> 1]
        s == [j \in Columns(M) |-> ColumnSum(M.indices, ones, j)]
    IN [j \in Columns(M) |-> IF s[j] # 0 THEN Quot(M.n_samples, s[j]) ELSE RatZero]

\* ------------------------------------------------------ minimize_SAGA
NoResult == [returned |-> FALSE]

OnesIterate == [j \in Features |-> 1]
\* x = np.zeros(n_features)
InitialIterate == Zeros(Features)

\* np.min(d[d != 0]) raises ValueError on an empty selection.
DeltaRaises(dv) == \A j \in Features : IsZero(dv[j])
\* np.zeros((max_iter + 1, n_features)) raises ValueError on a negative size.
AllocRaises(iters) == iters + 1 < 0

\* The number of entries of trace_x and trace_time.
TraceSlots(iters) == iters + 1

\* Lines 41-51: build the CSR view, the iterate, d and the trace buffers.
Initialize ==
    /\ pc = "start"
    /\ x' = InitialIterate
    /\ d' = compute_D(A)
    /\ IF DeltaRaises(d') \/ AllocRaises(max_iter)
       THEN /\ pc' = "error"
            /\ UNCHANGED <<trace_x, trace_time>>
       ELSE /\ pc' = "native"
            /\ trace_x' = [k \in 1..TraceSlots(max_iter) |-> Zeros(Features)]
            /\ trace_time' = [k \in 1..TraceSlots(max_iter) |-> 0]
    /\ UNCHANGED <<rc, result>>
    /\ UNCHANGED inputs
    /\ UNCHANGED native

\* ------------------------------------------- the solver, cffi_prox_asaga
\* The preconditions on the hyperparameters (design document, 6 and 7).
ValidHyper ==
    /\ alpha > 0
    /\ step_size > 0
    /\ max_iter >= 1
    /\ n_jobs >= 1

Workers == 1..n_jobs

IterFreqOne(M) == 1
\* The last argument of the call: ffi.cast("int64_t", n_samples).
IterFreq(M) == M.n_samples

\* The max_iter argument of the call.
MaxIterArg(iters) == iters

\* The step budget of the whole run.
TotalSteps == MaxIterArg(max_iter) * A.n_samples

ShareFloor(w) == TotalSteps \div n_jobs
\* The private share of worker w: the budget split evenly, the remainder
\* going to the first workers.
Share(w) ==
    (TotalSteps \div n_jobs) + (IF w <= TotalSteps % n_jobs THEN 1 ELSE 0)

\* row_i . x over the stored entries of row i.
RowDot(M, i, xv) ==
    SumOver([k \in RowEntries(M, i) |-> M.data[k] * xv[M.indices[k]]],
            RowEntries(M, i))

\* The derivative of the logistic loss at (label, z), in units of 1/4:
\* -label * sigmoid(-label * z), the sigmoid rounded to 0, 1/2 or 1.
LogisticGrad(label, z) ==
    LET m == label * z
    IN (0 - label) * (IF m > 0 THEN 0 ELSE IF m = 0 THEN 2 ELSE 4)

\* The proximal operator: L2 shrink, then L1 soft-threshold.
Prox(v, s) ==
    LET v2 == Sign(v) * (Abs(v) \div (1 + s * alpha))
    IN Sign(v2) * Max(Abs(v2) - s * beta, 0)

\* The columns row i touches: those of its stored entries.
Touched(M, i) == {M.indices[k] : k \in RowEntries(M, i)}

\* d[j] * g_avg[j], in units of 1/4 and rounded towards 0.
Reweighted(j) ==
    Sign(g_avg[j]) * ((d[j][1] * Abs(g_avg[j])) \div (d[j][2] * A.n_samples))

\* The solver rejects invalid hyperparameters before any worker starts.
\* The driver drops the value the call returns (line 52) and goes on.
NativeReject ==
    /\ pc = "native"
    /\ ~ValidHyper
    /\ rc' = "error"
    /\ pc' = "computing"
    /\ UNCHANGED <<x, d, trace_x, trace_time, result>>
    /\ UNCHANGED inputs
    /\ UNCHANGED native

\* The solver allocates its zero-initialized state and fans out the workers.
NativeStart ==
    /\ pc = "native"
    /\ ValidHyper
    /\ pc' = "running"
    /\ worker' = [w \in Workers |->
                    [pc |-> "idle", i |-> 0, g_new |-> 0, g_old |-> 0,
                     left |-> Share(w)]]
    /\ counter' = 0
    /\ pending' = <<>>
    /\ n_writes' = [s \in 0..max_iter |-> 0]
    /\ g_avg' = Zeros(Features)
    /\ mem' = Zeros(Samples(A))
    /\ UNCHANGED <<x, d, trace_x, trace_time, rc, result>>
    /\ UNCHANGED inputs

Started == pc = "running"

\* Steps 1-4 of the worker loop: draw i, read x on row i, compute g_new,
\* read g_old.
WorkerRead(w) ==
    /\ Started
    /\ worker[w].pc = "idle"
    /\ worker[w].left > 0
    /\ \E i \in Samples(A) :
         worker' = [worker EXCEPT ![w] =
                      [@ EXCEPT !.pc = "step", !.i = i,
                                !.g_new = LogisticGrad(b[i], RowDot(A, i, x)),
                                !.g_old = mem[i]]]
    /\ UNCHANGED <<counter, pending, n_writes, g_avg, mem>>
    /\ UNCHANGED driver
    /\ UNCHANGED inputs

GAvgRecomputedWrong(w) ==
    [j \in Features |->
       IF j \in Touched(A, worker[w].i)
       THEN g_avg[j] + worker[w].g_new * Entry(A, worker[w].i, j)
       ELSE g_avg[j]]
\* Step 6: g_avg += (g_new - g_old) / n_samples * A[i, j] on the touched j.
GAvgUpdate(w) ==
    [j \in Features |->
       IF j \in Touched(A, worker[w].i)
       THEN g_avg[j] + (worker[w].g_new - worker[w].g_old) * Entry(A, worker[w].i, j)
       ELSE g_avg[j]]

\* Step 5: the proximal step on every coordinate row i touches.
XUpdate(w) ==
    [j \in Features |->
       IF j \in Touched(A, worker[w].i)
       THEN Prox(x[j] - step_size *
                   ((worker[w].g_new - worker[w].g_old) * Entry(A, worker[w].i, j)
                    + Reweighted(j)),
                 step_size)
       ELSE x[j]]

\* Step 8: the requests pending after the counter reached c.
Signalled(c) ==
    IF c % IterFreq(A) = 0 THEN Append(pending, c \div IterFreq(A)) ELSE pending

\* Steps 5-8 of the worker loop.
WorkerUpdate(w) ==
    /\ Started
    /\ worker[w].pc = "step"
    /\ x' = XUpdate(w)
    /\ g_avg' = GAvgUpdate(w)
    /\ mem' = [mem EXCEPT ![worker[w].i] = worker[w].g_new]
    /\ counter' = counter + 1
    /\ pending' = Signalled(counter + 1)
    /\ worker' = [worker EXCEPT ![w] = [@ EXCEPT !.pc = "idle", !.left = @ - 1]]
    /\ UNCHANGED <<pc, d, trace_x, trace_time, rc, result, n_writes>>
    /\ UNCHANGED inputs

\* Snapshotting: the driver takes up the oldest request and copies the
\* iterate and the elapsed time (here: the step counter) into its slot, in
\* one piece and without pausing the workers.
TakeSnapshot ==
    /\ pc = "running"
    /\ pending # <<>>
    /\ LET slot == Head(pending)
       IN /\ trace_x' = [k \in DOMAIN trace_x |->
                           IF k = slot + 1 THEN x ELSE trace_x[k]]
          /\ trace_time' = [k \in DOMAIN trace_time |->
                              IF k = slot + 1 THEN counter ELSE trace_time[k]]
          /\ n_writes' = [s \in DOMAIN n_writes |->
                            IF s = slot THEN n_writes[s] + 1 ELSE n_writes[s]]
    /\ pending' = Tail(pending)
    /\ UNCHANGED <<pc, x, d, rc, result>>
    /\ UNCHANGED <<worker, counter, g_avg, mem>>
    /\ UNCHANGED inputs

AllFinished ==
    \A w \in DOMAIN worker : worker[w].pc = "idle" /\ worker[w].left = 0

\* The barrier: every worker finished its share and every snapshot was taken.
NativeJoin ==
    /\ pc = "running"
    /\ AllFinished
    /\ pending = <<>>
    /\ rc' = "ok"
    /\ pc' = "computing"
    /\ UNCHANGED <<x, d, trace_x, trace_time, result>>
    /\ UNCHANGED inputs
    /\ UNCHANGED native

\* ------------------------------------------------- _logistic_loss, return
\* The regularized logistic loss in fixed point: log(1 + exp(-yz)) rounds to
\* 0 for yz > 0 and to 1 - yz otherwise.
logistic_loss(M, xi) ==
    LET out == [i \in Samples(M) |->
                  LET yz == b[i] * RowDot(M, i, xi)
                  IN IF yz > 0 THEN 0 ELSE 1 - yz]
    IN (SumOver(out, Samples(M)) \div M.n_samples)
       + ((alpha * SumOver([j \in Features |-> xi[j] * xi[j]], Features)) \div 2)
       + beta * SumOver([j \in Features |-> Abs(xi[j])], Features)

DropLastOne(s) == SubSeq(s, 1, Len(s) - 1)
\* s[:-2]
DropLastTwo(s) == SubSeq(s, 1, Len(s) - 2)

\* Lines 58-62: evaluate the loss on every snapshot and return.
Finish ==
    /\ pc = "computing"
    /\ pc' = "done"
    /\ result' = [returned |-> TRUE,
                  x |-> x,
                  trace_time |-> DropLastTwo(trace_time),
                  func_trace |-> DropLastTwo(
                      [k \in DOMAIN trace_x |-> logistic_loss(A, trace_x[k])])]
    /\ UNCHANGED <<x, d, trace_x, trace_time, rc>>
    /\ UNCHANGED inputs
    /\ UNCHANGED native

\* ------------------------------------------------------ specification
Shapes ==
    {s \in (1..MaxSamples) \X (1..MaxFeatures) : s[1] * s[2] <= MaxCells}

Matrices ==
    UNION {{csr_matrix(cells, s[1], s[2]) :
              cells \in [1..s[1] -> [1..s[2] -> CellValues]]} : s \in Shapes}

\* The label vectors: all +1, and +1 and -1 alternating.
Labelings(M) ==
    {[i \in Samples(M) |-> IF i % 2 = 1 THEN 1 ELSE other] : other \in {0 - 1, 1}}

Init ==
    /\ A \in Matrices
    /\ b \in Labelings(A)
    /\ \E h \in HyperValues : alpha = h[1] /\ beta = h[2] /\ step_size = h[3]
    /\ max_iter \in IterValues
    /\ max_iter * A.n_samples <= MaxSteps
    /\ n_jobs \in JobValues
    /\ pc = "start"
    /\ x = <<>>
    /\ d = <<>>
    /\ trace_x = <<>>
    /\ trace_time = <<>>
    /\ rc = "none"
    /\ result = NoResult
    /\ worker = <<>>
    /\ counter = 0
    /\ pending = <<>>
    /\ n_writes = <<>>
    /\ g_avg = <<>>
    /\ mem = <<>>

Next ==
    \/ Initialize
    \/ NativeReject
    \/ NativeStart
    \/ \E w \in DOMAIN worker : WorkerRead(w)
    \/ \E w \in DOMAIN worker : WorkerUpdate(w)
    \/ TakeSnapshot
    \/ NativeJoin
    \/ Finish

Spec == Init /\ [][Next]_vars

\* The workers run in parallel and the driver is blocked only in the call:
\* no enabled step is postponed forever.
FairSpec == Spec /\ WF_vars(Next)

\* ------------------------------------------------------------- claims
\* x, d and the trace buffers exist once Initialize has run.
Initialized == pc # "start"
Completed == pc = "done"
ZeroColumn(j) == NonzeroCount(A, j) = 0

\* C1: for max_iter >= 3 and n_threads >= 1 the returned time trace and the
\* returned loss trace both have length max_iter - 1: the buffers hold
\* max_iter + 1 entries and exactly the last two are dropped.
C1_TraceLength ==
    (Completed /\ max_iter >= 3 /\ n_jobs >= 1) =>
        /\ Len(trace_time) = max_iter + 1
        /\ Len(trace_x) = max_iter + 1
        /\ Len(result.trace_time) = max_iter - 1
        /\ Len(result.func_trace) = Len(result.trace_time)
        /\ result.trace_time = SubSeq(trace_time, 1, Len(trace_time) - 2)

C1_Witness ==
    /\ Completed
    /\ ValidHyper
    /\ max_iter = 3
    /\ n_jobs = 2
    /\ Len(result.func_trace) = 2

\* C2: with a violated hyperparameter precondition the solve never gets to
\* the solver call and hands nothing back.
C2_FailFast ==
    ~ValidHyper => (pc \in {"start", "error"} /\ ~result.returned)

\* C3: d[j] = 0 exactly when column j has no nonzero value, and otherwise
\* d[j] = n_samples / c_j, which is >= 1, c_j being the number of samples
\* with a nonzero value in column j; for every stored representation.
C3_Reweighting ==
    Initialized =>
        \A j \in Features :
            LET c == NonzeroCount(A, j)
            IN /\ IsZero(d[j]) <=> c = 0
               /\ c > 0 => /\ d[j][1] * c = A.n_samples * d[j][2]
                           /\ d[j][1] >= d[j][2]
                           /\ d[j][2] > 0

\* C4: a coordinate whose column no sample touches is 0 in the iterate, in
\* every snapshot of the trace buffer and in the returned iterate, in every
\* state of every interleaving.
C4_FrozenColumns ==
    Initialized =>
        \A j \in Features :
            ZeroColumn(j) =>
                /\ x[j] = 0
                /\ \A k \in DOMAIN trace_x : trace_x[k][j] = 0
                /\ result.returned => result.x[j] = 0

C4_Witness ==
    /\ Completed
    /\ n_jobs = 2
    /\ \E j \in Features : ZeroColumn(j) /\ x[j] = 0
    /\ \E j \in Features : x[j] # 0
    /\ \E k \in DOMAIN trace_x : \E j \in Features : trace_x[k][j] # 0

\* C5: on valid input with all-zero columns, up to all of them, the
\* initialization raises no error.
C5_ZeroColumnNoError ==
    (ValidHyper /\ \E j \in Features : ZeroColumn(j)) => pc # "error"

C7_Lifecycle ==
    /\ (ValidHyper ~> Completed)
    /\ [](pc \in {"computing", "done"} /\ ValidHyper =>
            /\ rc = "ok"
            /\ AllFinished
            /\ DOMAIN worker = Workers)
    /\ [][(pc \in {"computing", "done"}) => (x' = x /\ trace_x' = trace_x)]_vars

\* Requests and writes exist only for epoch boundaries the step counter has
\* crossed, within the slots 0..max_iter, and each slot is written at most
\* once.
C9_SlotsInOrder ==
    (pc = "running" \/ rc = "ok") =>
        /\ \A k \in 1..Len(pending) :
              /\ pending[k] \in 1..max_iter
              /\ pending[k] * A.n_samples <= counter
        /\ \A s \in DOMAIN n_writes :
              /\ s \in 0..max_iter
              /\ n_writes[s] <= 1
              /\ n_writes[s] = 1 => (s >= 1 /\ s * A.n_samples <= counter)
        /\ Len(pending) + SumOver(n_writes, DOMAIN n_writes)
             = counter \div A.n_samples

\* One step writes at most one slot, and a request is raised only by the
\* step that takes the counter to a multiple of n_samples.
C9_OneWriteAtATime ==
    (pc = "running" /\ pc' = "running") =>
        /\ Cardinality({k \in DOMAIN trace_x : trace_x'[k] # trace_x[k]}) <= 1
        /\ SumOver(n_writes', DOMAIN n_writes) - SumOver(n_writes, DOMAIN n_writes) <= 1
        /\ Len(pending') > Len(pending) =>
              (counter' = counter + 1 /\ counter' % A.n_samples = 0)

NoStepInProgress == \A w \in DOMAIN worker : worker[w].pc = "idle"
AverageMatchesMemory ==
    \A j \in Features :
        g_avg[j] = SumOver([i \in Samples(A) |-> mem[i] * Entry(A, i, j)], Samples(A))

\* C10 as stated: whenever no worker is in the middle of a step, g_avg is
\* the average of the stored gradients projected through A, for every
\* n_threads >= 1.
C10_AverageAllThreads ==
    (rc # "error" /\ pc \in {"running", "computing", "done"} /\ NoStepInProgress)
        => AverageMatchesMemory

\* C10 amended: the same, for n_threads = 1.
C10_AverageOneThread ==
    (n_jobs = 1 /\ rc # "error" /\ pc \in {"running", "computing", "done"}
       /\ NoStepInProgress)
        => AverageMatchesMemory

C10_Witness ==
    /\ n_jobs = 1
    /\ Completed
    /\ rc = "ok"
    /\ counter >= 2
    /\ \E j \in Features : g_avg[j] # 0
    /\ \E i \in Samples(A) : mem[i] = 0

=============================================================================
